---- MODULE Spec2Model ----
(***************************************************************************)
(* Patch plausibility evaluation of AgentIssue-Bench.                      *)
(*                                                                         *)
(* Four evaluators are modelled, each as the state machine of its script:  *)
(*   EP   AgentIssue-Bench/eval_patches.py            (docker, strict)     *)
(*   EF   AgentIssue-Bench/eval_patches_flexible.py   (docker, flexible)   *)
(*   AG   AgentIssue-Bench/Agentless/evaluate_patches.py (temp copies)     *)
(*   ACR  AgentIssue-Bench/auto-code-rover/evaluate_patches.py             *)
(*        (backup / mutate / restore of the repository)                    *)
(* and TD, a driver that calls the two teardown functions                  *)
(* (restore_repo_state, remove_images.stop_and_remove) repeatedly, and     *)
(* CO, the retry loop of reproduce.checkout_code.                          *)
(* prog names the script a behaviour runs; Init draws it.                  *)
(***************************************************************************)
EXTENDS Integers, Sequences, FiniteSets, TLC

VARIABLES
    prog,           \* which script runs
    pc,             \* position in the script
    err,            \* the exception that left the script uncaught, or "none"
    tags,           \* EP/EF: os.listdir(PATCHES_ROOT) as <<[name, npatch]>>
    ti,             \* EP/EF: index of the tag being processed
    pi,             \* EP/EF: number of patch_files of the tag already tried
    success_count,  \* EP/EF: per-tag counter
    total_count,    \* EP/EF: per-tag total
    global_success, \* EP/EF
    global_total,   \* EP/EF
    skipped_tags,   \* EF: list of tags whose image was not available
    run,            \* the validation process of the current trial
    applied,        \* what applying the current trial's patch reported
    msg,            \* outcome label last written to the log for a trial
    fs,             \* file system: [files: path -> content, dirs: set of paths]
    samples,        \* AG: sample dirs as <<[name, npatch]>> (lines of the jsonl)
    si,             \* AG: index of the sample being processed
    li,             \* AG: index of the line (patch) being processed
    patch,          \* AG: the patch_data of the current line
    results,        \* AG: results[sample][patch_key]
    tasks,          \* ACR: task dirs as <<[has_patch, has_meta]>>
    ki,             \* ACR: index of the task being processed
    passed,         \* ACR: number of plausible patches
    plausible,      \* ACR: local of apply_patch_and_check
    docker,         \* [containers, images] of the docker daemon
    calls,          \* TD: teardown calls made so far, <<[fn, arg, raised]>>
    snap,           \* TD: the state left by the previous teardown call
    pulls,          \* per image / repo: the outcomes of the fetch attempts made
    ret,            \* CO: what checkout_code returned, or "none"
    log,            \* EP/EF: per tag, the number of log lines of each label
    avg_score,      \* EP/EF: per-tag score of the last tag summary
    grand_total_avg,\* EP/EF: sum of the per-tag scores
    global_score,   \* EP/EF: the score line of the global summary
    retries,        \* RW: the retries argument of run_with_retries
    threads,        \* RW: msg_threads, one entry per thread returned by run()
    call_count,     \* RW: number of calls the model has received
    runs,           \* BR: number of runs of the evaluation started so far
    proc,           \* RC: the shell started by Popen
    elapsed,        \* RC: time since Popen
    timeout,        \* RC: the timeout argument of run_command
    wait_start,     \* RC: time at which process.wait(timeout) was entered
    cmd,            \* RC: index of the command of the tag that run_command runs
    checks          \* AG: the checks is_patch_plausible has called for the patch

dockerVars == <<tags, ti, pi, success_count, total_count, global_success,
                global_total, skipped_tags>>
agVars     == <<samples, si, li, patch, results>>
acrVars    == <<tasks, ki, passed, plausible>>
tdVars     == <<docker, calls, snap>>
envVars    == <<pulls, ret>>
repVars    == <<log, avg_score, grand_total_avg, global_score>>
rwVars     == <<retries, threads, call_count>>
rcVars     == <<proc, elapsed, timeout, wait_start, cmd>>
auxVars    == <<rwVars, rcVars, runs, checks>>
vars == <<prog, pc, err, dockerVars, run, applied, msg, fs, agVars, acrVars, tdVars,
          envVars, repVars, auxVars>>

----------------------------------------------------------------------------
(* Bounds of the model *)

MaxPatches == 2     \* .patch files per tag / lines per jsonl
MaxTasks   == 2     \* task dirs under results/ (ACR)
MaxCalls   == 2     \* teardown calls of the TD driver
MaxRetries == 3     \* the retries argument of run_with_retries
MaxRuns    == 2     \* runs of evaluate_patches.py on the same task (BR)
MaxTimeout == 2     \* the timeout argument of run_command, in ticks
MaxTicks   == 4     \* time a command is followed for

----------------------------------------------------------------------------
(* Paths: a path is a sequence of components; an absolute path starts "/" *)

IsAbs(p) == p # <<>> /\ Head(p) = "/"

\* os.path.join(a, b): an absolute b discards a
PathJoin(a, b) == IF IsAbs(b) THEN b ELSE a \o b

RECURSIVE NormAcc(_, _)
NormAcc(p, acc) ==
    IF p = <<>> THEN acc
    ELSE IF Head(p) = ".."
         THEN NormAcc(Tail(p), IF Len(acc) > 1 THEN SubSeq(acc, 1, Len(acc) - 1) ELSE acc)
         ELSE NormAcc(Tail(p), Append(acc, Head(p)))

\* the file the operating system opens for path p ("..", resolved)
Resolve(p) == NormAcc(p, <<>>)

CWD == <<"/", "work">>
AbsPath(p) == Resolve(PathJoin(CWD, p))

Parent(p) == SubSeq(p, 1, Len(p) - 1)

Under(d, p) == Len(p) > Len(d) /\ SubSeq(p, 1, Len(d)) = d

Exists(F, d) == d \in F.dirs \/ d \in DOMAIN F.files

\* the files below directory d, keyed by their path relative to d
Tree(F, d) ==
    LET ps == {p \in DOMAIN F.files : Under(d, p)}
        rel(p) == SubSeq(p, Len(d) + 1, Len(p))
    IN  [r \in {rel(p) : p \in ps} |-> F.files[d \o r]]

\* shutil.rmtree(d)
rmtree(F, d) ==
    LET keep == {p \in DOMAIN F.files : ~Under(d, p)}
    IN  [files |-> [p \in keep |-> F.files[p]],
         dirs  |-> {x \in F.dirs : x # d /\ ~Under(d, x)}]

\* shutil.copytree(src, dst [, dirs_exist_ok=True]) when it does not raise
copytree(F, src, dst) ==
    LET t   == Tree(F, src)
        new == {dst \o r : r \in DOMAIN t}
        sub == {dst \o SubSeq(x, Len(src) + 1, Len(x)) : x \in {y \in F.dirs : Under(src, y)}}
    IN  [files |-> [p \in (DOMAIN F.files) \cup new |->
                       IF p \in new THEN t[SubSeq(p, Len(dst) + 1, Len(p))]
                       ELSE F.files[p]],
         dirs  |-> F.dirs \cup {dst} \cup sub]

\* open(p, "w") followed by f.write(content)
WriteFile(F, p, content) ==
    [files |-> [q \in (DOMAIN F.files) \cup {p} |-> IF q = p THEN content ELSE F.files[q]],
     dirs  |-> F.dirs]

RECURSIVE Prefixes(_)
Prefixes(p) == IF Len(p) <= 1 THEN {} ELSE {p} \cup Prefixes(Parent(p))

\* os.makedirs(d, exist_ok=True)
makedirs(F, d) == [files |-> F.files, dirs |-> F.dirs \cup Prefixes(d)]

EmptyFS == [files |-> <<>>, dirs |-> {}]

----------------------------------------------------------------------------
(* eval_patches.py and eval_patches_flexible.py *)

TagNames   == {"agixt_1369", "crewai_1370"}
SpecialTag == "agixt_1369"

\* a directory listing: distinct names; an entry is a directory holding
\* npatch patches, or a plain file
Entries(names) ==
    {e \in [name : names, isdir : BOOLEAN, npatch : 0..MaxPatches] : ~e.isdir => e.npatch = 0}
Catalogs(names) ==
    {s \in UNION {[1..n -> Entries(names)] : n \in 0..Cardinality(names)} :
        \A i, j \in DOMAIN s : i # j => s[i].name # s[j].name}

FailureMarker == "FAILED"
GeneralMarkers == {"PATCH SUCCEEDED", "PATCH SUCCESSFULLY VERIFIED", "FIX SUCCESSFULLY VERIFIED",
                   "NO BUG", "FIX CONFIRMED", "PATCH VERIFIED"}
Markers(tag) == IF tag = SpecialTag THEN GeneralMarkers \cup {"patched succeeded"}
                ELSE GeneralMarkers

\* stdout / stderr of a command, as the set of marker tokens it contains
StdoutSamples == {{}, {"FAILED"}, {"PATCH SUCCEEDED"}, {"FAILED", "PATCH SUCCEEDED"},
                  {"patched succeeded"}, {"NO BUG"}}
StderrSamples == {{}, {"FAILED"}}

NoRun == [invoked |-> FALSE, late |-> FALSE, exc |-> FALSE,
          stdout |-> {}, stderr |-> {}, rc |-> -1, partial |-> {}]

\* what a command that runs past the timeout has printed when the timeout
\* expires
PartialSamples == {{}, {"collecting tests"}}

\* a validation command: what it prints, its exit code, and whether it runs
\* past the task's timeout (late); stdout is what it has printed at its end,
\* partial what it has printed when the timeout expires
TestRuns ==
    {[invoked |-> TRUE, late |-> FALSE, exc |-> FALSE,
      stdout |-> o, stderr |-> e, rc |-> c, partial |-> o] :
        o \in StdoutSamples, e \in StderrSamples, c \in {0, 1}}
    \cup
    {[invoked |-> TRUE, late |-> TRUE, exc |-> FALSE,
      stdout |-> q \cup o, stderr |-> {}, rc |-> c, partial |-> q] :
        q \in PartialSamples, o \in {{}, {"PATCH SUCCEEDED"}}, c \in {0, 1}}

\* bash -c "apply_patch P && test_patched": test_patched runs only after
\* apply_patch exited 0, and the exit code is that of the last command run
ShellAnd(apply_rc, test) ==
    IF apply_rc # 0
    THEN [invoked |-> FALSE, late |-> FALSE, exc |-> FALSE,
          stdout |-> {}, stderr |-> {}, rc |-> apply_rc, partial |-> {}]
    ELSE test

DockerRuns == {ShellAnd(a, t) : a \in {0, 1}, t \in TestRuns}

\* run_test_entrypoint.sh apply_patch exits non-zero when the patch is rejected
ApplyStatus(apply_rc) == IF apply_rc = 0 THEN "APPLIED" ELSE "REJECTED"

\* Classify without the second if: exit 0 and no "FAILED" is enough
ClassifyExitCodeOnly(tag, r) ==
    IF FailureMarker \in r.stdout \/ r.rc # 0 THEN "FAILED" ELSE "SUCCESS"

\* Classify whose agixt_1369 branch has lost the test of the return code
ClassifyBranchesDiffer(tag, r) ==
    IF tag = SpecialTag
    THEN IF FailureMarker \in r.stdout THEN "FAILED"
         ELSE IF Markers(tag) \cap r.stdout # {} THEN "SUCCESS"
         ELSE "FAILED"
    ELSE IF FailureMarker \in r.stdout \/ r.rc # 0 THEN "FAILED"
         ELSE IF Markers(tag) \cap r.stdout # {} THEN "SUCCESS"
         ELSE "FAILED"

\* the if-chain on result.stdout and result.returncode
Classify(tag, r) ==
    IF FailureMarker \in r.stdout \/ r.rc # 0 THEN "FAILED"
    ELSE IF Markers(tag) \cap r.stdout # {} THEN "SUCCESS"
    ELSE "FAILED"

\* subprocess.run(cmd, ..., timeout=300) or without timeout
HasTimeout(p, tag) == ~(p = "EP" /\ tag = SpecialTag)
\* the docker run is inside try: ... except subprocess.TimeoutExpired
HasTry(p, tag) == tag # SpecialTag
\* a further except Exception clause
CatchesException(p, tag) == p = "EF" /\ tag # SpecialTag
\* the label logged by the except TimeoutExpired clause
TimeoutLabel(p) == IF p = "EP" THEN "FAILED" ELSE "TIMEOUT"

PATCHES_ROOT == <<"Patches">>

\* how a docker pull can end: exit 0; registry rate limiting; no image for
\* this platform; another failure with exit code # 0; the 60 s timeout of
\* pull_image_safe (no connectivity); the docker binary cannot be started
PullOutcomes == {"ok", "rate limit", "no matching manifest", "other", "timeout", "oserror"}
\* pull_image_safe: True iff docker pull returned 0; every failure returns False
pull_image_safe(outcome) == outcome = "ok"
\* check_image_exists: the image is in the output of `docker images`
check_image_exists(D, tag) == tag \in D.images

AddImage(D, tag) == [D EXCEPT !.images = @ \cup {tag}]
\* docker rmi -f image
RemoveImage(D, tag) == [D EXCEPT !.images = @ \ {tag}]

\* the labels of the per-patch log lines
Labels  == {"SUCCESS", "FAILED", "TIMEOUT", "ERROR"}
NoLines == [l \in Labels |-> 0]
\* log.write of a per-patch line of tag t
LogLine(L, t, label) == [L EXCEPT ![t] = [@ EXCEPT ![label] = @ + 1]]
\* the log line of a trial holds the patch file name and the label; the
\* captured output is not written (log.write(output) is commented out, and
\* TimeoutExpired.stdout is not read)
LineOutput(r) == {}

\* Python floats, as exact fractions in lowest terms
RECURSIVE Gcd(_, _)
Gcd(a, b) == IF b = 0 THEN a ELSE Gcd(b, a % b)
Frac(n, d) == [num |-> n \div Gcd(n, d), den |-> d \div Gcd(n, d)]
Zero == Frac(0, 1)
FracAdd(x, y) == Frac(x.num * y.den + y.num * x.den, x.den * y.den)
\* a / b: raises ZeroDivisionError when b is 0
truediv(a, b) ==
    IF b = 0 THEN [raised |-> TRUE, value |-> Zero]
    ELSE [raised |-> FALSE, value |-> Frac(a, b)]
\* f"{x:.2f}": the number of hundredths nearest to x
Fmt2(x) == (200 * x.num + x.den) \div (2 * x.den)

\* avg_score = success_count / total_count if total_count > 0 else 0
AvgScore(s, t) == IF t > 0 THEN truediv(s, t) ELSE [raised |-> FALSE, value |-> Zero]

NoScore == [label |-> "none", na |-> TRUE, value |-> 0]
\* overall_score without the test of global_total
overall_score_unguarded(gs, gt) ==
    [raised |-> truediv(gs, gt).raised,
     line   |-> [label |-> "Overall plausible score", na |-> FALSE,
                 value |-> Fmt2(truediv(gs, gt).value)]]
\* eval_patches_flexible.py: global_success / global_total, or N/A
overall_score(gs, gt) ==
    IF gt > 0
    THEN [raised |-> truediv(gs, gt).raised,
          line   |-> [label |-> "Overall plausible score", na |-> FALSE,
                      value |-> Fmt2(truediv(gs, gt).value)]]
    ELSE [raised |-> FALSE,
          line   |-> [label |-> "Overall plausible score", na |-> TRUE, value |-> 0]]
\* the score line of the global summary
GlobalScore(p, gs, gt, gta) ==
    IF p = "EP"
    THEN [raised |-> FALSE,
          line   |-> [label |-> "Plausible score", na |-> FALSE, value |-> Fmt2(gta)]]
    ELSE overall_score(gs, gt)

\* the counters the global summary prints: successful patches, and failed
\* patches as global_total - global_success
Summary(gs, gt) == ("SUCCESS" :> gs) @@ ("FAILED" :> gt - gs)

\* the exit status of the Python process: 1 after an uncaught exception
returncode == IF pc = "aborted" THEN 1 ELSE 0
\* evaluate_patches.py: run_evaluation returns returncode == 0, and main
\* calls sys.exit(0 if success else 1)
main_exit(child) == IF child = 0 THEN 0 ELSE 1

IsDocker == prog \in {"EP", "EF"}
CurTag   == tags[ti].name

Abort(e) == pc' = "aborted" /\ err' = e

\* os.listdir(PATCHES_ROOT)
DkListdir ==
    /\ IsDocker /\ pc = "start"
    /\ IF Exists(fs, AbsPath(PATCHES_ROOT))
       THEN pc' = "tag" /\ UNCHANGED err
       ELSE Abort("FileNotFoundError")
    /\ UNCHANGED <<prog, auxVars, dockerVars, run, applied, msg, fs, agVars, acrVars, tdVars,
                   envVars, repVars>>

\* an entry of PATCHES_ROOT that is not a directory is passed over
DkSkipNotDir ==
    /\ IsDocker /\ pc = "tag" /\ ti <= Len(tags)
    /\ ~tags[ti].isdir
    /\ ti' = ti + 1
    /\ UNCHANGED <<prog, auxVars, pc, err, tags, pi, success_count, total_count, global_success,
                   global_total, skipped_tags, run, applied, msg, fs, agVars, acrVars,
                   tdVars, envVars, repVars>>

\* a tag directory without .patch files is skipped
DkSkipEmpty ==
    /\ IsDocker /\ pc = "tag" /\ ti <= Len(tags)
    /\ tags[ti].isdir
    /\ tags[ti].npatch = 0
    /\ ti' = ti + 1
    /\ UNCHANGED <<prog, auxVars, pc, err, tags, pi, success_count, total_count, global_success,
                   global_total, skipped_tags, run, applied, msg, fs, agVars, acrVars,
                   tdVars, envVars, repVars>>

\* the start of a tag's loop without success_count = 0
StartPatchesNoReset ==
    /\ pc' = "patch"
    /\ success_count' = success_count
    /\ total_count' = tags[ti].npatch
    /\ pi' = 0
    /\ log' = (CurTag :> NoLines) @@ log

StartPatches ==
    /\ pc' = "patch"
    /\ success_count' = 0
    /\ total_count' = tags[ti].npatch
    /\ pi' = 0
    /\ log' = (CurTag :> NoLines) @@ log

\* eval_patches.py: subprocess.run(["docker", "pull", image], check=True)
EpPull ==
    /\ prog = "EP" /\ pc = "tag" /\ ti <= Len(tags)
    /\ tags[ti].npatch > 0
    /\ \E outcome \in PullOutcomes :
         /\ pulls' = (CurTag :> <<outcome>>) @@ pulls
         /\ \/ outcome = "ok" /\ StartPatches /\ docker' = AddImage(docker, CurTag)
                              /\ UNCHANGED err
            \/ outcome # "ok" /\ Abort("CalledProcessError: docker pull")
                              /\ UNCHANGED <<success_count, total_count, pi, log, docker>>
    /\ UNCHANGED <<prog, auxVars, tags, ti, global_success, global_total, skipped_tags,
                   run, applied, msg, fs, agVars, acrVars, calls, snap, ret,
                   avg_score, grand_total_avg, global_score>>

\* eval_patches_flexible.py: check_image_exists, else pull_image_safe
EfEnsureImage ==
    /\ prog = "EF" /\ pc = "tag" /\ ti <= Len(tags)
    /\ tags[ti].npatch > 0
    /\ \/ /\ check_image_exists(docker, CurTag)
          /\ pulls' = (CurTag :> <<>>) @@ pulls
          /\ StartPatches
          /\ UNCHANGED <<ti, skipped_tags, docker>>
       \/ /\ ~check_image_exists(docker, CurTag)
          /\ \E outcome \in PullOutcomes :
               /\ pulls' = (CurTag :> <<outcome>>) @@ pulls
               /\ \/ /\ pull_image_safe(outcome)
                     /\ docker' = AddImage(docker, CurTag)
                     /\ StartPatches
                     /\ UNCHANGED <<ti, skipped_tags>>
                  \/ /\ ~pull_image_safe(outcome)
                     /\ skipped_tags' = Append(skipped_tags, CurTag)
                     /\ ti' = ti + 1
                     /\ UNCHANGED <<pc, success_count, total_count, pi, log, docker>>
    /\ UNCHANGED <<prog, auxVars, err, tags, global_success, global_total,
                   run, applied, msg, fs, agVars, acrVars, calls, snap, ret,
                   avg_score, grand_total_avg, global_score>>

\* docker run returned within the timeout (or there is no timeout): classify
DkTrialCompleted ==
    /\ IsDocker /\ pc = "patch" /\ pi < total_count
    /\ \E apply_rc \in {0, 1}, t \in TestRuns :
         LET r == ShellAnd(apply_rc, t) IN
         /\ ~(r.late /\ HasTimeout(prog, CurTag))
         /\ run' = r
         /\ applied' = ApplyStatus(apply_rc)
         /\ msg' = Classify(CurTag, r)
         /\ log' = LogLine(log, CurTag, Classify(CurTag, r))
         /\ success_count' = IF Classify(CurTag, r) = "SUCCESS"
                             THEN success_count + 1 ELSE success_count
    /\ pi' = pi + 1
    /\ UNCHANGED <<prog, auxVars, pc, err, tags, ti, total_count, global_success, global_total,
                   skipped_tags, fs, agVars, acrVars, tdVars, envVars,
                   avg_score, grand_total_avg, global_score>>

\* docker run exceeded timeout=300: subprocess.run kills the docker client
\* and raises TimeoutExpired; the container goes on running
DkTrialTimeout ==
    /\ IsDocker /\ pc = "patch" /\ pi < total_count
    /\ \E r \in DockerRuns, ps_ok \in BOOLEAN, rm_ok \in BOOLEAN :
         /\ r.late /\ HasTimeout(prog, CurTag)
         /\ run' = r
         /\ applied' = ApplyStatus(0)
         /\ IF HasTry(prog, CurTag)
            THEN /\ msg' = TimeoutLabel(prog)
                 /\ log' = LogLine(log, CurTag, TimeoutLabel(prog))
                 \* docker ps -q by check_output; docker rm -f of every id, check=False
                 /\ IF ps_ok
                    THEN /\ pi' = pi + 1
                         /\ docker' = IF rm_ok THEN [docker EXCEPT !.containers = {}]
                                      ELSE [docker EXCEPT !.containers = @ \cup {CurTag}]
                         /\ UNCHANGED <<pc, err>>
                    ELSE /\ Abort("CalledProcessError: docker ps")
                         /\ docker' = [docker EXCEPT !.containers = @ \cup {CurTag}]
                         /\ UNCHANGED pi
            ELSE /\ Abort("TimeoutExpired")
                 /\ docker' = [docker EXCEPT !.containers = @ \cup {CurTag}]
                 /\ UNCHANGED <<msg, pi, log>>
    /\ UNCHANGED <<prog, auxVars, tags, ti, success_count, total_count, global_success, global_total,
                   skipped_tags, fs, agVars, acrVars, calls, snap, envVars,
                   avg_score, grand_total_avg, global_score>>

\* subprocess.run itself raises (docker missing, undecodable output)
DkTrialException ==
    /\ IsDocker /\ pc = "patch" /\ pi < total_count
    /\ run' = [NoRun EXCEPT !.exc = TRUE]
    /\ applied' = "none"
    /\ IF CatchesException(prog, CurTag)
       THEN /\ msg' = "ERROR" /\ pi' = pi + 1
            /\ log' = LogLine(log, CurTag, "ERROR")
            /\ UNCHANGED <<pc, err>>
       ELSE Abort("Exception") /\ UNCHANGED <<msg, pi, log>>
    /\ UNCHANGED <<prog, auxVars, tags, ti, success_count, total_count, global_success, global_total,
                   skipped_tags, fs, agVars, acrVars, tdVars, envVars,
                   avg_score, grand_total_avg, global_score>>

\* the per-tag summary and the update of the global counters;
\* eval_patches.py then removes the image (docker rmi -f, check=False)
DkTagSummary ==
    /\ IsDocker /\ pc = "patch" /\ pi = total_count
    /\ LET a == AvgScore(success_count, total_count) IN
         IF a.raised
         THEN /\ Abort("ZeroDivisionError")
              /\ UNCHANGED <<avg_score, grand_total_avg, global_success, global_total,
                             ti, docker>>
         ELSE /\ avg_score' = [na |-> FALSE, value |-> Fmt2(a.value)]
              /\ grand_total_avg' = FracAdd(grand_total_avg, a.value)
              /\ global_success' = global_success + success_count
              /\ global_total' = global_total + total_count
              /\ docker' = IF prog = "EP" THEN RemoveImage(docker, CurTag) ELSE docker
              /\ ti' = ti + 1
              /\ pc' = "tag"
              /\ UNCHANGED err
    /\ UNCHANGED <<prog, auxVars, tags, pi, success_count, total_count, skipped_tags,
                   run, applied, msg, fs, agVars, acrVars, calls, snap, envVars,
                   log, global_score>>

\* the global summary, after the loop over the tags
DkGlobalSummary ==
    /\ IsDocker /\ pc = "tag" /\ ti > Len(tags)
    /\ LET g == GlobalScore(prog, global_success, global_total, grand_total_avg) IN
         IF g.raised
         THEN Abort("ZeroDivisionError") /\ UNCHANGED global_score
         ELSE pc' = "done" /\ global_score' = g.line /\ UNCHANGED err
    /\ UNCHANGED <<prog, auxVars, dockerVars, run, applied, msg, fs, agVars, acrVars, tdVars,
                   envVars, log, avg_score, grand_total_avg>>

----------------------------------------------------------------------------
(* Agentless/evaluate_patches.py *)

SampleNames     == {"sample_a", "sample_b"}
REPO_CLONE_PATH == <<"repo">>
\* the directory tempfile.TemporaryDirectory() hands out
TempRepo        == <<"/", "tmp", "tmpdir">>

\* the canonical clone before the run
OrigTree == (<<"a.py">> :> "orig")
AgInitFS == [files |-> (AbsPath(REPO_CLONE_PATH) \o <<"a.py">> :> "orig"),
             dirs  |-> {AbsPath(REPO_CLONE_PATH)}]

\* edited_files entries: inside the repo, absolute, and climbing out with ..
PatchPaths == {<<"a.py">>,
               <<"/", "work", "repo", "a.py">>,
               <<"..", "..", "work", "repo", "a.py">>}
\* new_file_content entries; "NULL" is a JSON null, which f.write refuses
PatchContents == {"new", "NULL"}

NoPatch == [edited_files |-> <<>>, new_file_content |-> <<>>]
PatchData ==
    {NoPatch} \cup
    {[edited_files |-> <<p>>, new_file_content |-> <<c>>] : p \in PatchPaths, c \in PatchContents}

\* one iteration of apply_patch_files: makedirs, open(full_path, "w"), write
ApplyOne(F, repo_path, file_path, new_content) ==
    LET full_path == Resolve(PathJoin(repo_path, file_path))
        F1 == makedirs(F, Parent(full_path))
    IN  IF new_content = "NULL"
        THEN [fs |-> WriteFile(F1, full_path, ""), raised |-> TRUE]
        ELSE [fs |-> WriteFile(F1, full_path, new_content), raised |-> FALSE]

\* apply_patch_files: for file_path, new_content in zip(...)
RECURSIVE apply_patch_files(_, _, _, _)
apply_patch_files(F, repo_path, edited_files, new_file_contents) ==
    IF edited_files = <<>> \/ new_file_contents = <<>>
    THEN [fs |-> F, raised |-> FALSE]
    ELSE LET one == ApplyOne(F, repo_path, Head(edited_files), Head(new_file_contents))
         IN  IF one.raised THEN one
             ELSE apply_patch_files(one.fs, repo_path, Tail(edited_files), Tail(new_file_contents))

\* python reproduce.py, timeout=TIMEOUT: the validation runs of the file-based
\* evaluators (a late run raises TimeoutExpired inside run_reproduce_script)
ReproRuns ==
    {[invoked |-> TRUE, late |-> FALSE, exc |-> FALSE,
      stdout |-> o, stderr |-> {}, rc |-> c, partial |-> o] :
        o \in {{}, {"FAILED"}}, c \in {0, 1}}
    \cup
    {[invoked |-> TRUE, late |-> TRUE, exc |-> FALSE,
      stdout |-> {}, stderr |-> {}, rc |-> 0, partial |-> {}]}

\* run_reproduce_script: returncode == 0; any exception (the timeout) is False
run_reproduce_script(r) == IF r.late \/ r.exc THEN FALSE ELSE r.rc = 0

\* run_static_check: compile() of every *.py; an exception is False
StaticOutcomes == {"pass", "SyntaxError"}
run_static_check(o) == o = "pass"

\* run_flake8_check: returncode == 0; TimeoutExpired or another exception is False
Flake8Outcomes == {"pass", "fail", "timeout"}
run_flake8_check(o) == o = "pass"

\* run_import_check: exec_module of every *.py in this process; `except
\* Exception` is False, and a module that calls sys.exit() raises SystemExit,
\* which is no Exception and leaves the function
ImportOutcomes == {"pass", "ImportError", "SystemExit"}
run_import_check(o) == [value |-> o = "pass", raised |-> o = "SystemExit"]

\* how the run of reproduce.py ended; NoRun: there is no reproduce.py
ReproOutcome(r) ==
    IF ~r.invoked THEN "missing"
    ELSE IF r.late THEN "timeout"
    ELSE IF r.rc = 0 THEN "pass" ELSE "fail"

\* the checks the `and` chain calls, in order, each with how it ended
ChecksCalled(so, fo, io, r) ==
    <<[name |-> "static", outcome |-> so]>> \o
    (IF ~run_static_check(so) THEN <<>> ELSE
     <<[name |-> "flake8", outcome |-> fo]>> \o
     (IF ~run_flake8_check(fo) THEN <<>> ELSE
      <<[name |-> "import", outcome |-> io]>> \o
      (IF ~run_import_check(io).value THEN <<>> ELSE
       <<[name |-> "reproduce", outcome |-> ReproOutcome(r)]>>)))

\* is_patch_plausible: static and flake8 and import and reproduce, short-circuit
is_patch_plausible(static, flake8, import, r) ==
    static /\ flake8 /\ import /\ run_reproduce_script(r)

CurSample == samples[si].name
\* patch_key: the jsonl's stem and the line's index
PatchKey  == li

Record(value) ==
    results' = [results EXCEPT ![CurSample] = @ @@ (PatchKey :> value)]

\* if not os.path.isdir(sample_path): continue
AgSkipNotDir ==
    /\ prog = "AG" /\ pc = "sample" /\ si <= Len(samples)
    /\ ~samples[si].isdir
    /\ si' = si + 1
    /\ UNCHANGED <<prog, auxVars, pc, err, dockerVars, run, msg, fs, samples, li, patch, results,
                   acrVars, tdVars>>
    /\ UNCHANGED <<applied, envVars, repVars>>

\* for sample_dir in os.listdir(...): results[sample_dir] = {}
AgNextSample ==
    /\ prog = "AG" /\ pc = "sample" /\ si <= Len(samples)
    /\ samples[si].isdir
    /\ results' = (CurSample :> <<>>) @@ results
    /\ li' = 0
    /\ pc' = "line"
    /\ UNCHANGED <<prog, auxVars, err, dockerVars, run, msg, fs, samples, si, patch, acrVars, tdVars>>
    /\ UNCHANGED <<applied, envVars, repVars>>

\* json.loads(line); with TemporaryDirectory() as temp_repo: copytree(...)
AgLoad ==
    /\ prog = "AG" /\ pc = "line" /\ li < samples[si].npatch
    /\ \E json_ok \in BOOLEAN, copy_ok \in BOOLEAN, p \in PatchData :
         \/ ~json_ok /\ Abort("JSONDecodeError") /\ applied' = "MALFORMED"
                      /\ UNCHANGED <<fs, patch>>
         \/ json_ok /\ ~copy_ok
            \* copytree raises inside the with block: the block removes temp_repo
            /\ Abort("shutil.Error") /\ patch' = p /\ applied' = "none" /\ UNCHANGED fs
         \/ json_ok /\ copy_ok
            /\ patch' = p
            /\ applied' = "none"
            /\ fs' = copytree(makedirs(fs, TempRepo), AbsPath(REPO_CLONE_PATH), TempRepo)
            /\ pc' = "apply" /\ UNCHANGED err
    /\ run' = NoRun
    /\ UNCHANGED <<prog, auxVars, dockerVars, msg, samples, si, li, results, acrVars, tdVars,
                   envVars, repVars>>

\* try: apply_patch_files(temp_repo, edited_files, new_file_content)
AgApply ==
    /\ prog = "AG" /\ pc = "apply"
    /\ LET a == apply_patch_files(fs, TempRepo, patch.edited_files, patch.new_file_content) IN
         IF a.raised
         THEN \* except Exception: results[..] = False; the with block ends
              /\ Record(FALSE)
              /\ applied' = "MALFORMED"
              /\ fs' = rmtree(a.fs, TempRepo)
              /\ li' = li + 1
              /\ pc' = "line"
         ELSE /\ fs' = a.fs
              /\ applied' = "APPLIED"
              /\ pc' = "check"
              /\ UNCHANGED <<li, results>>
    /\ run' = NoRun
    /\ UNCHANGED <<prog, auxVars, err, dockerVars, msg, samples, si, patch, acrVars, tdVars,
                   envVars, repVars>>

\* refactor_project; is_patch_plausible; results[..] = plausible; with block ends
AgCheck ==
    /\ prog = "AG" /\ pc = "check"
    /\ \E so \in StaticOutcomes, fo \in Flake8Outcomes, io \in ImportOutcomes,
          r \in ReproRuns \cup {NoRun} :
         LET static == run_static_check(so)
             flake8 == run_flake8_check(fo)
             import == run_import_check(io)
         IN  /\ checks' = ChecksCalled(so, fo, io, r)
             /\ IF static /\ flake8 /\ import.raised
                THEN \* SystemExit passes both `except Exception` clauses
                     /\ Abort("SystemExit")
                     /\ run' = NoRun
                     /\ UNCHANGED <<li, results>>
                ELSE /\ run' = IF static /\ flake8 /\ import.value THEN r ELSE NoRun
                     /\ Record(is_patch_plausible(static, flake8, import.value, r))
                     /\ li' = li + 1
                     /\ pc' = "line"
                     /\ UNCHANGED err
    /\ fs' = rmtree(fs, TempRepo)
    /\ UNCHANGED <<prog, rwVars, rcVars, runs, dockerVars, msg, samples, si, patch, acrVars,
                   tdVars>>
    /\ UNCHANGED <<applied, envVars, repVars>>

AgSampleDone ==
    /\ prog = "AG" /\ pc = "line" /\ li = samples[si].npatch
    /\ si' = si + 1
    /\ pc' = "sample"
    /\ UNCHANGED <<prog, auxVars, err, dockerVars, run, msg, fs, samples, li, patch, results,
                   acrVars, tdVars>>
    /\ UNCHANGED <<applied, envVars, repVars>>

\* print(results)
AgDone ==
    /\ prog = "AG" /\ pc = "sample" /\ si > Len(samples)
    /\ pc' = "done"
    /\ UNCHANGED <<prog, auxVars, err, dockerVars, run, msg, fs, agVars, acrVars, tdVars>>
    /\ UNCHANGED <<applied, envVars, repVars>>

----------------------------------------------------------------------------
(* auto-code-rover/evaluate_patches.py *)

\* meta["setup_info"]["repo_path"]
RepoPath == <<"/", "work", "proj">>
BackupName(name) == IF name = "proj" THEN "proj_backup" ELSE "other_backup"
\* repo_path.parent / f"{repo_path.name}_backup"
BackupOf(repo_path) == Append(Parent(repo_path), BackupName(repo_path[Len(repo_path)]))

\* the repository before the run; stale: a _backup left by an interrupted run
AcrInitFS(stale) ==
    [files |-> IF stale
               THEN (RepoPath \o <<"a.py">> :> "orig") @@ (BackupOf(RepoPath) \o <<"a.py">> :> "stale")
               ELSE (RepoPath \o <<"a.py">> :> "orig"),
     dirs  |-> IF stale THEN {RepoPath, BackupOf(RepoPath)} ELSE {RepoPath}]

\* an operating-system error injected into a copytree / rmtree call
SaveFaults    == {"none", "copytree"}
RestoreFaults == {"none", "copytree", "rmtree_backup"}

\* save_repo_state that keeps a backup directory it finds instead of
\* replacing it
save_keeps_stale_backup(F, repo_path, fault) ==
    LET backup_path == BackupOf(repo_path)
    IN  IF ~Exists(F, repo_path) \/ fault = "copytree"
        THEN [fs |-> F, raised |-> TRUE]
        ELSE IF Exists(F, backup_path)
        THEN [fs |-> F, raised |-> FALSE]
        ELSE [fs |-> copytree(F, repo_path, backup_path), raised |-> FALSE]

\* save_repo_state: rmtree an existing backup, then copytree(repo, backup)
save_repo_state(F, repo_path, fault) ==
    LET backup_path == BackupOf(repo_path)
        F1 == IF Exists(F, backup_path) THEN rmtree(F, backup_path) ELSE F
    IN  IF ~Exists(F1, repo_path) \/ fault = "copytree"
        THEN [fs |-> F1, raised |-> TRUE]
        ELSE [fs |-> copytree(F1, repo_path, backup_path), raised |-> FALSE]

\* restore_repo_state without its last line, the rmtree of the backup
restore_keeps_backup(F, repo_path, backup_path, fault) ==
    LET F1 == IF Exists(F, repo_path) THEN rmtree(F, repo_path) ELSE F
    IN  IF ~Exists(F1, backup_path) \/ fault = "copytree"
        THEN [fs |-> F1, raised |-> TRUE]
        ELSE [fs |-> copytree(F1, backup_path, repo_path), raised |-> FALSE]

\* restore_repo_state: rmtree(repo), copytree(backup, repo), rmtree(backup)
restore_repo_state(F, repo_path, backup_path, fault) ==
    LET F1 == IF Exists(F, repo_path) THEN rmtree(F, repo_path) ELSE F
    IN  IF ~Exists(F1, backup_path) \/ fault = "copytree"
        THEN [fs |-> F1, raised |-> TRUE]
        ELSE LET F2 == copytree(F1, backup_path, repo_path)
             IN  IF fault = "rmtree_backup"
                 THEN [fs |-> F2, raised |-> TRUE]
                 ELSE [fs |-> rmtree(F2, backup_path), raised |-> FALSE]

\* subprocess.run(["git", "apply", patch], check=True, cwd=repo_path):
\* exit 0, CalledProcessError (patch rejected or unparsable), or git cannot run
GitOutcomes == {"APPLIED", "REJECTED", "MALFORMED", "oserror"}
git_apply(F, repo_path) == WriteFile(F, repo_path \o <<"a.py">>, "new")

CurTask == tasks[ki]

\* the two existence tests with only the first one left
has_inputs_patch_only(task) == task.has_patch

\* patch_path.exists() and meta_path.exists()
has_inputs(task) == task.has_patch /\ task.has_meta

\* no extracted_patch_0.diff, or no meta.json: return False
AcrMissing ==
    /\ prog = "ACR" /\ pc = "task" /\ ki <= Len(tasks)
    /\ ~has_inputs(CurTask)
    /\ ki' = ki + 1
    /\ UNCHANGED <<prog, auxVars, pc, err, dockerVars, run, msg, fs, agVars, tasks, passed, plausible,
                   tdVars>>
    /\ UNCHANGED <<applied, envVars, repVars>>

\* backup_path = save_repo_state(repo_path), before the try block
AcrSave ==
    /\ prog = "ACR" /\ pc = "task" /\ ki <= Len(tasks)
    /\ has_inputs(CurTask)
    /\ \E fault \in SaveFaults :
         LET s == save_repo_state(fs, RepoPath, fault) IN
         /\ fs' = s.fs
         /\ IF s.raised THEN Abort("save_repo_state")
            ELSE pc' = "try" /\ UNCHANGED err
    /\ run' = NoRun
    /\ applied' = "none"
    \* the file system and docker as the call found them
    /\ snap' = [fs |-> fs, docker |-> docker]
    /\ UNCHANGED <<prog, auxVars, dockerVars, msg, agVars, acrVars, docker, calls, envVars,
                   repVars>>

\* try: git apply (check=True)
AcrApply ==
    /\ prog = "ACR" /\ pc = "try"
    /\ \E outcome \in GitOutcomes :
         /\ applied' = IF outcome = "oserror" THEN "none" ELSE outcome
         /\ IF outcome = "APPLIED"
            THEN /\ fs' = git_apply(fs, RepoPath)
                 /\ pc' = "reproduce"
                 /\ UNCHANGED plausible
            ELSE \* except CalledProcessError / except Exception: plausible = False
                 /\ plausible' = FALSE
                 /\ pc' = "finally"
                 /\ UNCHANGED fs
    /\ UNCHANGED <<prog, auxVars, err, dockerVars, run, msg, agVars, tasks, ki, passed, tdVars,
                   envVars, repVars>>

\* refactor_project(repo_path); plausible = run_reproduce_script(repo_path)
AcrReproduce ==
    /\ prog = "ACR" /\ pc = "reproduce"
    /\ \E r \in ReproRuns :
         /\ run' = r
         /\ plausible' = run_reproduce_script(r)
    /\ pc' = "finally"
    /\ UNCHANGED <<prog, auxVars, err, dockerVars, msg, fs, agVars, tasks, ki, passed, tdVars>>
    /\ UNCHANGED <<applied, envVars, repVars>>

\* finally: restore_repo_state(repo_path, backup_path); return plausible
AcrFinally ==
    /\ prog = "ACR" /\ pc = "finally"
    /\ \E fault \in RestoreFaults :
         LET r == restore_repo_state(fs, RepoPath, BackupOf(RepoPath), fault) IN
         /\ fs' = r.fs
         /\ IF r.raised
            THEN Abort("restore_repo_state") /\ UNCHANGED <<ki, passed>>
            ELSE /\ passed' = IF plausible THEN passed + 1 ELSE passed
                 /\ ki' = ki + 1
                 /\ pc' = "task"
                 /\ UNCHANGED err
    /\ UNCHANGED <<prog, auxVars, dockerVars, run, msg, agVars, tasks, plausible, tdVars>>
    /\ UNCHANGED <<applied, envVars, repVars>>

\* print(f"{passed}/{total} plausible patches")
AcrDone ==
    /\ prog = "ACR" /\ pc = "task" /\ ki > Len(tasks)
    /\ pc' = "done"
    /\ UNCHANGED <<prog, auxVars, err, dockerVars, run, msg, fs, agVars, acrVars, tdVars>>
    /\ UNCHANGED <<applied, envVars, repVars>>

----------------------------------------------------------------------------
(* remove_images.py, and the driver of the teardown functions *)

TdTags == {"agixt_1369", "crewai_1370"}

\* stop_and_remove(tag): containers.get / stop / remove, then images.remove;
\* NotFound, ImageNotFound and APIError are caught and printed
stop_and_remove(D, tag, api_error) ==
    [docker |-> [containers |-> IF api_error THEN D.containers ELSE D.containers \ {tag},
                 images     |-> IF api_error THEN D.images ELSE D.images \ {tag}],
     raised |-> FALSE]

TdState == [fs |-> fs, docker |-> docker]

\* a call restore_repo_state(repo_path, backup_path)
TdRestore ==
    /\ prog = "TD" /\ pc = "td" /\ Len(calls) < MaxCalls
    /\ LET r == restore_repo_state(fs, RepoPath, BackupOf(RepoPath), "none") IN
         /\ fs' = r.fs
         /\ calls' = Append(calls, [fn |-> "restore_repo_state", arg |-> "proj",
                                    api_error |-> FALSE, raised |-> r.raised])
    /\ snap' = TdState
    /\ UNCHANGED <<prog, auxVars, pc, err, dockerVars, run, msg, agVars, acrVars, docker>>
    /\ UNCHANGED <<applied, envVars, repVars>>

\* a call stop_and_remove(tag)
TdStopAndRemove ==
    /\ prog = "TD" /\ pc = "td" /\ Len(calls) < MaxCalls
    /\ \E tag \in TdTags, api_error \in BOOLEAN :
         LET r == stop_and_remove(docker, tag, api_error) IN
         /\ docker' = r.docker
         /\ calls' = Append(calls, [fn |-> "stop_and_remove", arg |-> tag,
                                    api_error |-> api_error, raised |-> r.raised])
    /\ snap' = TdState
    /\ UNCHANGED <<prog, auxVars, pc, err, dockerVars, run, msg, fs, agVars, acrVars>>
    /\ UNCHANGED <<applied, envVars, repVars>>

----------------------------------------------------------------------------
(* reproduce.py: checkout_code *)

\* for attempt in range(10)
CheckoutAttempts == 10
\* how git clone / git checkout can end: done; GitCommandError whose text
\* holds "timed out"; another GitCommandError; any other exception
CloneOutcomes == {"ok", "timed out", "GitCommandError", "Exception"}
Repo == "repo_url"

\* one iteration of the loop: clone_from, checkout, and the except clauses
CoAttempt ==
    /\ prog = "CO" /\ pc = "checkout"
    /\ Len(pulls[Repo]) < CheckoutAttempts
    /\ \E outcome \in CloneOutcomes :
         LET attempt == Len(pulls[Repo]) IN
         /\ pulls' = [pulls EXCEPT ![Repo] = Append(@, outcome)]
         /\ IF outcome = "ok"
            THEN ret' = "True" /\ pc' = "done"
            ELSE IF outcome = "timed out" /\ attempt < CheckoutAttempts - 1
                 THEN \* time.sleep(5), then the next attempt
                      UNCHANGED <<ret, pc>>
                 ELSE ret' = "False" /\ pc' = "done"
    /\ UNCHANGED <<prog, auxVars, err, dockerVars, run, applied, msg, fs, agVars, acrVars, tdVars,
                   repVars>>

----------------------------------------------------------------------------
(* auto-code-rover: Task.execute_reproducer (app/task.py), as the tests
   test_execute_reproducer_normal and test_execute_reproducer_timeout use it *)

\* what run_script_in_conda does: it returns a CompletedProcess or raises
\* subprocess.TimeoutExpired
ScriptOutcomes ==
    [timed_out : BOOLEAN, stdout : {"", "dummy stdout"},
     stderr : {"", "dummy stderr"}, returncode : {0, 1}]

\* execute_reproducer that lets TimeoutExpired escape
execute_reproducer_propagates(cp) ==
    [raised |-> cp.timed_out, stdout |-> cp.stdout, stderr |-> cp.stderr,
     returncode |-> cp.returncode]

\* the ReproResult of execute_reproducer for one outcome of the script
execute_reproducer(cp) ==
    IF cp.timed_out
    THEN [raised |-> FALSE, stdout |-> "", stderr |-> "Test execution timeout.",
          returncode |-> -1]
    ELSE [raised |-> FALSE, stdout |-> cp.stdout, stderr |-> cp.stderr,
          returncode |-> cp.returncode]

\* one call task.execute_reproducer(test_content, patch_content)
ErExecute ==
    /\ prog = "ER" /\ pc = "start"
    /\ \E cp \in ScriptOutcomes :
        LET r == execute_reproducer(cp) IN
            /\ run' = cp
            /\ IF r.raised
               THEN Abort("TimeoutExpired") /\ UNCHANGED ret
               ELSE pc' = "done" /\ ret' = r /\ UNCHANGED err
    /\ UNCHANGED <<prog, auxVars, dockerVars, applied, msg, fs, agVars, acrVars, tdVars,
                   pulls, repVars>>

----------------------------------------------------------------------------
(* auto-code-rover: agent_proxy.run_with_retries (app/agents/agent_proxy.py),
   as test_run_with_retries_eventually_valid and
   test_run_with_retries_never_valid use it *)

\* what the model may answer to one call
Responses == {"valid", "invalid_json", "invalid_response"}

\* the response parses as JSON and passes is_valid_response
is_valid_response(resp) == resp = "valid"

\* a loop that makes one attempt more than retries
RwContinueOffByOne(n, r) == n <= r

\* the loop over the attempts goes on after n calls
RwContinue(n, r) == n < r

\* one attempt: run(text), the thread is appended, a valid response returns
RwCall ==
    /\ prog = "RW" /\ pc = "loop"
    /\ RwContinue(Len(threads), retries)
    /\ \E resp \in Responses :
        /\ call_count' = call_count + 1
        /\ threads' = Append(threads, resp)
        /\ IF is_valid_response(resp)
           THEN pc' = "done" /\ ret' = resp
           ELSE UNCHANGED <<pc, ret>>
    /\ UNCHANGED <<prog, err, dockerVars, run, applied, msg, fs, agVars, acrVars, tdVars,
                   pulls, repVars, retries, rcVars, runs, checks>>

\* every attempt was invalid: return (None, msg_threads)
RwExhausted ==
    /\ prog = "RW" /\ pc = "loop"
    /\ ~RwContinue(Len(threads), retries)
    /\ pc' = "done" /\ ret' = "None"
    /\ UNCHANGED <<prog, auxVars, err, dockerVars, run, applied, msg, fs, agVars, acrVars,
                   tdVars, pulls, repVars>>

----------------------------------------------------------------------------
(* auto-code-rover/evaluate_patches.py run again and again on one task: a run
   may be killed between any two calls, and inside save_repo_state and
   restore_repo_state between any two of their shutil calls *)

\* a new run reaches backup_path = save_repo_state(repo_path); a copytree that
\* fails or is cut short ends the run after the rmtree of the old backup
BrSave ==
    /\ prog = "BR" /\ pc = "idle" /\ runs < MaxRuns
    /\ runs' = runs + 1
    /\ \E fault \in SaveFaults :
         LET s == save_repo_state(fs, RepoPath, fault) IN
         /\ fs' = s.fs
         /\ pc' = IF s.raised THEN "idle" ELSE "try"
    /\ applied' = "none"
    /\ UNCHANGED <<prog, err, dockerVars, run, msg, agVars, acrVars, tdVars, envVars, repVars,
                   rwVars, rcVars, checks>>

\* git apply, then refactor_project and reproduce.py when it applied
BrApply ==
    /\ prog = "BR" /\ pc = "try"
    /\ \E outcome \in GitOutcomes :
         /\ applied' = IF outcome = "oserror" THEN "none" ELSE outcome
         /\ fs' = IF outcome = "APPLIED" THEN git_apply(fs, RepoPath) ELSE fs
    /\ pc' = "finally"
    /\ UNCHANGED <<prog, auxVars, err, dockerVars, run, msg, agVars, acrVars, tdVars, envVars,
                   repVars>>

\* finally: restore_repo_state(repo_path, backup_path); the run ends whether
\* it returns, raises, or is cut short after one of its shutil calls
BrRestore ==
    /\ prog = "BR" /\ pc = "finally"
    /\ \E fault \in RestoreFaults :
         fs' = restore_repo_state(fs, RepoPath, BackupOf(RepoPath), fault).fs
    /\ pc' = "idle"
    /\ UNCHANGED <<prog, auxVars, err, dockerVars, run, applied, msg, agVars, acrVars, tdVars,
                   envVars, repVars>>

\* the run is killed between save_repo_state and restore_repo_state
BrInterrupt ==
    /\ prog = "BR" /\ pc \in {"try", "finally"}
    /\ pc' = "idle"
    /\ UNCHANGED <<prog, auxVars, err, dockerVars, run, applied, msg, fs, agVars, acrVars,
                   tdVars, envVars, repVars>>

----------------------------------------------------------------------------
(* test_agentissue_bench.py: run_command and the three commands of a tag *)

\* docker pull, test_buggy and test_fixed
CommandsPerTag == 3

\* the shell after Popen(command, shell=True, stdout=PIPE, stderr=STDOUT):
\* it runs, and the write end of the pipe is open
Started == [alive |-> TRUE, stdout_open |-> TRUE]

\* what the command does on its own: the write end of the pipe gets closed
\* (by the shell and by every child that inherited it), or the shell exits,
\* with or without a child that keeps the pipe open
RcProcess ==
    /\ prog = "RC" /\ pc \in {"reading", "waiting"}
    /\ \/ /\ proc.stdout_open
          /\ proc' = [proc EXCEPT !.stdout_open = FALSE]
       \/ /\ proc.alive
          /\ \E open \in {proc.stdout_open, FALSE} :
                proc' = [alive |-> FALSE, stdout_open |-> open]
    /\ UNCHANGED <<prog, pc, err, dockerVars, run, applied, msg, fs, agVars, acrVars, tdVars,
                   envVars, repVars, rwVars, runs, checks, elapsed, timeout, wait_start, cmd>>

\* `for line in process.stdout` ends when the pipe reaches end of file; then
\* process.wait(timeout=timeout) is entered
RcEof ==
    /\ prog = "RC" /\ pc = "reading"
    /\ ~proc.stdout_open
    /\ pc' = "waiting"
    /\ wait_start' = elapsed
    /\ UNCHANGED <<prog, err, dockerVars, run, applied, msg, fs, agVars, acrVars, tdVars,
                   envVars, repVars, rwVars, runs, checks, proc, elapsed, timeout, cmd>>

\* process.wait returns: the exit code is logged
RcWaitReturns ==
    /\ prog = "RC" /\ pc = "waiting"
    /\ ~proc.alive
    /\ msg' = "Exit code"
    /\ pc' = "returned"
    /\ UNCHANGED <<prog, auxVars, err, dockerVars, run, applied, fs, agVars, acrVars, tdVars,
                   envVars, repVars>>

\* process.wait raises TimeoutExpired, timeout after it was entered: the
\* timeout is logged and process.kill() ends the shell
RcWaitTimeout ==
    /\ prog = "RC" /\ pc = "waiting"
    /\ proc.alive
    /\ elapsed - wait_start >= timeout
    /\ msg' = "Timeout! Skipped command"
    /\ proc' = [proc EXCEPT !.alive = FALSE]
    /\ pc' = "returned"
    /\ UNCHANGED <<prog, err, dockerVars, run, applied, fs, agVars, acrVars, tdVars,
                   envVars, repVars, rwVars, runs, checks, elapsed, timeout, wait_start, cmd>>

\* run_command can take a step without waiting any longer
RcCanStep ==
    \/ pc = "reading" /\ ~proc.stdout_open
    \/ pc = "waiting" /\ ~proc.alive
    \/ pc = "waiting" /\ proc.alive /\ elapsed - wait_start >= timeout

\* time passes while run_command is blocked in the read or in the wait
RcTick ==
    /\ prog = "RC" /\ pc \in {"reading", "waiting"}
    /\ ~RcCanStep
    /\ elapsed < MaxTicks
    /\ elapsed' = elapsed + 1
    /\ UNCHANGED <<prog, pc, err, dockerVars, run, applied, msg, fs, agVars, acrVars, tdVars,
                   envVars, repVars, rwVars, runs, checks, proc, timeout, wait_start, cmd>>

\* run_command has returned: the next command of the tag is started
RcNextCommand ==
    /\ prog = "RC" /\ pc = "returned"
    /\ cmd < CommandsPerTag
    /\ cmd' = cmd + 1
    /\ proc' = Started
    /\ elapsed' = 0
    /\ wait_start' = 0
    /\ pc' = "reading"
    /\ UNCHANGED <<prog, err, dockerVars, run, applied, msg, fs, agVars, acrVars, tdVars,
                   envVars, repVars, rwVars, runs, checks, timeout>>

----------------------------------------------------------------------------
(* The specification *)

Progs == {"EP", "EF", "AG", "ACR", "TD", "CO", "ER", "RW", "BR", "RC"}

StartPc(p) == CASE p \in {"EP", "EF"} -> "start"
                [] p = "AG"  -> "sample"
                [] p = "ACR" -> "task"
                [] p = "CO"  -> "checkout"
                [] p = "ER"  -> "start"
                [] p = "RW"  -> "loop"
                [] p = "BR"  -> "idle"
                [] p = "RC"  -> "reading"
                [] OTHER     -> "td"

\* containers that run on the host when a docker script starts; `docker ps -q`
\* lists them with the script's own
OtherContainers == {"unrelated"}

TaskLists == UNION {[1..n -> [has_patch : BOOLEAN, has_meta : BOOLEAN]] : n \in 0..MaxTasks}

Init ==
    /\ prog \in Progs
    /\ pc = StartPc(prog)
    /\ err = "none"
    /\ fs \in CASE prog = "AG"  -> {AgInitFS}
                [] prog = "ACR" -> {AcrInitFS(stale) : stale \in BOOLEAN}
                [] prog = "BR"  -> {AcrInitFS(FALSE)}
                \* TD starts where save_repo_state has returned
                [] prog = "TD"  -> {save_repo_state(AcrInitFS(FALSE), RepoPath, "none").fs,
                                    git_apply(save_repo_state(AcrInitFS(FALSE), RepoPath, "none").fs,
                                              RepoPath)}
                \* the docker scripts start with or without a Patches directory
                [] prog \in {"EP", "EF"} -> {EmptyFS, makedirs(EmptyFS, AbsPath(PATCHES_ROOT))}
                [] OTHER        -> {EmptyFS}
    /\ tags \in IF prog \in {"EP", "EF"} /\ Exists(fs, AbsPath(PATCHES_ROOT))
                THEN Catalogs(TagNames) ELSE {<<>>}
    /\ ti = 1 /\ pi = 0
    /\ success_count = 0 /\ total_count = 0
    /\ global_success = 0 /\ global_total = 0
    /\ skipped_tags = <<>>
    /\ run = NoRun
    /\ applied = "none"
    /\ msg = "none"
    /\ samples \in IF prog = "AG" THEN Catalogs(SampleNames) ELSE {<<>>}
    /\ si = 1 /\ li = 0
    /\ patch = NoPatch
    /\ results = <<>>
    /\ tasks \in IF prog = "ACR" THEN TaskLists ELSE {<<>>}
    /\ ki = 1
    /\ passed = 0
    /\ plausible = FALSE
    /\ docker \in CASE prog = "TD" -> [containers : SUBSET TdTags, images : SUBSET TdTags]
                    \* the images docker already holds matter to check_image_exists
                    [] prog = "EF" -> [containers : {{}}, images : SUBSET TagNames]
                    \* the host may run containers that are not the script's
                    [] prog = "EP" -> [containers : SUBSET OtherContainers, images : {{}}]
                    [] OTHER       -> {[containers |-> {}, images |-> {}]}
    /\ calls = <<>>
    /\ snap = TdState
    /\ pulls = IF prog = "CO" THEN (Repo :> <<>>) ELSE <<>>
    /\ ret = "none"
    /\ log = <<>>
    /\ avg_score = [na |-> TRUE, value |-> 0]
    /\ grand_total_avg = Zero
    /\ global_score = NoScore
    /\ retries \in IF prog = "RW" THEN 0..MaxRetries ELSE {0}
    /\ threads = <<>>
    /\ call_count = 0
    /\ runs = 0
    /\ proc = IF prog = "RC" THEN Started ELSE [alive |-> FALSE, stdout_open |-> FALSE]
    /\ elapsed = 0
    /\ timeout \in IF prog = "RC" THEN 1..MaxTimeout ELSE {0}
    /\ wait_start = 0
    /\ cmd = 1
    /\ checks = <<>>

Next ==
    \/ DkListdir \/ DkSkipNotDir \/ DkSkipEmpty \/ EpPull \/ EfEnsureImage
    \/ DkTrialCompleted \/ DkTrialTimeout \/ DkTrialException
    \/ DkTagSummary \/ DkGlobalSummary
    \/ AgSkipNotDir \/ AgNextSample \/ AgLoad \/ AgApply \/ AgCheck \/ AgSampleDone \/ AgDone
    \/ AcrMissing \/ AcrSave \/ AcrApply \/ AcrReproduce \/ AcrFinally \/ AcrDone
    \/ TdRestore \/ TdStopAndRemove
    \/ CoAttempt
    \/ ErExecute
    \/ RwCall \/ RwExhausted
    \/ BrSave \/ BrApply \/ BrRestore \/ BrInterrupt
    \/ RcProcess \/ RcEof \/ RcWaitReturns \/ RcWaitTimeout \/ RcTick \/ RcNextCommand

Spec == Init /\ [][Next]_vars

----------------------------------------------------------------------------
(* Properties *)

RECURSIVE SumPatches(_)
SumPatches(s) == IF s = <<>> THEN 0 ELSE Head(s).npatch + SumPatches(Tail(s))

\* the script has ended: it printed its last summary, or an exception left it
Ended == pc \in {"done", "aborted"}

\* a trial of the current tag has been handled and the tag's loop goes on
TrialDone == IsDocker /\ pc = "patch" /\ pi > 0
\* ... and its docker run returned a result that was classified
Completed == TrialDone /\ ~run.exc /\ ~(run.late /\ HasTimeout(prog, CurTag))

\* C1 (as claimed): once the run has ended, every submitted (task, patch)
\* pair has exactly one recorded outcome: the docker scripts count every
\* patch file in the global total, and the Agentless results mapping has an
\* entry for every line of every sample.
C1_ExactlyOneResult ==
    Ended =>
        /\ IsDocker => global_total = SumPatches(tags)
        /\ prog = "AG" =>
             \A i \in {j \in DOMAIN samples : samples[j].isdir} :
                /\ samples[i].name \in DOMAIN results
                /\ DOMAIN results[samples[i].name] = 0..(samples[i].npatch - 1)

\* C2 (as claimed): no failure of a single trial (image pull failure,
\* timeout, non-zero exit, exception) ends the run of a docker script
\* before its global summary; only a patch root that cannot be listed does.
C2_NoTrialAbortsRun == (IsDocker /\ pc = "aborted") => err = "FileNotFoundError"

\* C3 (as claimed): a trial whose validation command runs past the timeout
\* is given the outcome TIMEOUT (and is not counted as a success).
C3_TimeoutPrecedence == (IsDocker /\ run.late) => (msg = "TIMEOUT" /\ pc # "aborted")

C5_Isolation ==
    /\ (prog = "AG" /\ pc = "apply") => Tree(fs, TempRepo) = OrigTree
    /\ (prog = "ACR" /\ pc = "try") => Tree(fs, RepoPath) = OrigTree

\* a backup made by this run (not the one an earlier, interrupted run left)
OwnBackup ==
    /\ Exists(fs, BackupOf(RepoPath))
    /\ Tree(fs, BackupOf(RepoPath)) # (<<"a.py">> :> "stale")

\* C6: every sandbox that was created is torn down on every path that leaves
\* the trial.  Agentless: outside a trial the temporary repo copy does not
\* exist, whether the trial passed, failed to apply, or raised.  ACR: when
\* apply_patch_and_check has returned (patch applied, rejected, reproduce.py
\* failed or timed out, any other exception in the try block) the backup it
\* made is gone and the patched working tree is the original again, and the
\* only exceptions that leave it are those of the
\* creation and of the teardown itself.
C6_ScopedTeardown ==
    /\ (prog = "AG" /\ pc \notin {"apply", "check"}) => ~Exists(fs, TempRepo)
    /\ (prog = "ACR" /\ pc \in {"task", "done"}) =>
         (~OwnBackup /\ Tree(fs, RepoPath) = OrigTree)
    /\ (prog = "ACR" /\ pc = "aborted") => err \in {"save_repo_state", "restore_repo_state"}

\* C6 witness: apply_patch_and_check has returned from a trial whose git
\* apply was rejected, and the backup is gone.
C6_Witness ==
    /\ prog = "ACR" /\ pc = "task" /\ ki > 1
    /\ applied = "REJECTED"
    /\ ~Exists(fs, BackupOf(RepoPath))
    /\ Tree(fs, RepoPath) = OrigTree

\* C7 (as claimed): a teardown called twice in a row with the same argument
\* does not raise the second time and leaves the state of the first call.
C7_IdempotentTeardown ==
    \A n \in 2..Len(calls) :
        (/\ calls[n].fn = calls[n - 1].fn
         /\ calls[n].arg = calls[n - 1].arg
         /\ ~calls[n].api_error /\ ~calls[n - 1].api_error)
        => /\ ~calls[n].raised
           /\ n = Len(calls) => TdState = snap

\* C8 (as claimed): an error raised by a teardown (restoring the repository,
\* removing the containers after a timeout) never leaves the script.
C8_TeardownNeverFails ==
    err \notin {"restore_repo_state", "CalledProcessError: docker ps"}

\* C9 (as claimed): a patch that does not apply (rejected or malformed) ends
\* its trial with a recorded non-plausible outcome, and the validation
\* command is not invoked for it.
C9_ShortCircuit ==
    applied \in {"REJECTED", "MALFORMED"} =>
        /\ ~run.invoked
        /\ pc # "aborted"
        /\ TrialDone => msg = "FAILED"
        /\ (prog = "ACR" /\ pc = "finally") => ~plausible
        /\ (prog = "AG" /\ pc = "line" /\ li > 0) => ~results[CurSample][li - 1]

\* C10 (as claimed): applying a patch changes no file of the task's canonical
\* environment (REPO_CLONE_PATH, the repo named in meta.json).
C10_ApplyFrame ==
    /\ prog = "AG" => Tree(fs, AbsPath(REPO_CLONE_PATH)) = OrigTree
    /\ (prog = "ACR" /\ pc = "reproduce") => Tree(fs, RepoPath) = OrigTree

----------------------------------------------------------------------------
(* Environment availability, retries, timeouts, scores and summaries *)

\* the failure modes of making an image or a checkout available
Transient == {"rate limit"}
Permanent == {"no matching manifest"}
Network   == {"timeout", "timed out"}

\* tag t was given up: its image counts as not available
Skipped(t) == \E i \in DOMAIN skipped_tags : skipped_tags[i] = t
\* the last outcome of the fetch attempts made for t
LastPull(t) == pulls[t][Len(pulls[t])]
\* the number of per-patch lines the log holds for tag t
Lines(t) == IF t \in DOMAIN log
            THEN log[t]["SUCCESS"] + log[t]["FAILED"] + log[t]["TIMEOUT"] + log[t]["ERROR"]
            ELSE 0

\* C11 (as claimed): when the run of a docker script has ended, for every
\* tag whose image could not be pulled for a permanent reason (no matching
\* manifest) the run went on to its summary, exactly one pull was made, no
\* docker run was started for the tag, and every patch of the tag is
\* recorded: the total of the global summary counts it.
C11_EnvironmentUnavailable ==
    (IsDocker /\ Ended) =>
        \A i \in DOMAIN tags :
            LET t == tags[i].name IN
            (t \in DOMAIN pulls /\ pulls[t] # <<>> /\ LastPull(t) \in Permanent) =>
                /\ pc = "done"
                /\ Len(pulls[t]) = 1
                /\ Lines(t) = 0
                /\ global_total = SumPatches(tags)

\* C12 (as claimed): a fetch is attempted again only after a transient
\* failure (rate limit), within a bounded number of attempts, and a first
\* transient failure is not final; a permanent or network failure is final and resolves to environment-unavailable: the tag is
\* skipped and the run goes on, checkout_code returns False.
C12_RetryPolicy ==
    \A t \in DOMAIN pulls :
        /\ \A i \in 1..(Len(pulls[t]) - 1) : pulls[t][i] \in Transient
        /\ Len(pulls[t]) <= CheckoutAttempts
        /\ (Len(pulls[t]) = 1 /\ LastPull(t) \in Transient) =>
              /\ pc # "aborted"
              /\ IsDocker => ~Skipped(t)
              /\ prog = "CO" => pc = "checkout"
        /\ (pulls[t] # <<>> /\ LastPull(t) \in Permanent \cup Network) =>
              /\ pc # "aborted"
              /\ IsDocker => Skipped(t)
              /\ prog = "CO" => (pc = "done" /\ ret = "False")

\* C13 (as claimed): when the handling of a timed-out docker run is over
\* (the next trial can start, or the script has ended), the container the
\* timed-out trial started is not running any more.
C13_ProcessTreeKilled ==
    (/\ IsDocker /\ run.late
     /\ TrialDone \/ pc = "aborted"
     /\ ti <= Len(tags) /\ HasTimeout(prog, CurTag))
    => CurTag \notin docker.containers

\* C14 (as claimed): the score of a tag summary is successes / patches of
\* that tag, and the score of the global summary is the sum of the successes
\* over the sum of the patches tested, hence between 0 and 1.
C14_ScoreRatios ==
    /\ (IsDocker /\ pc = "tag" /\ ~avg_score.na) =>
          /\ total_count > 0
          /\ avg_score.value = Fmt2(Frac(success_count, total_count))
    /\ (IsDocker /\ pc = "done" /\ global_total > 0) =>
          /\ ~global_score.na
          /\ global_score.value = Fmt2(Frac(global_success, global_total))
          /\ global_score.value >= Fmt2(Frac(0, 1))
          /\ global_score.value <= Fmt2(Frac(1, 1))

\* what ends a run at the level of the orchestration: the patch catalog
\* cannot be listed, or docker as a whole does not answer (the docker
\* command cannot be started or fails for a reason that is not the image's)
OrchestrationFailure ==
    \/ err \in {"FileNotFoundError", "Exception", "CalledProcessError: docker ps"}
    \/ /\ err = "CalledProcessError: docker pull"
       /\ LastPull(CurTag) \in {"oserror", "other", "timeout"}

\* C15 (as claimed): the exit status main passes on for a docker script is 0
\* when the script reached the end of its global summary, and non-zero only
\* when the patch catalog or the container engine as a whole failed; no
\* outcome of a single trial (a timeout included) makes it non-zero.
C15_ExitCode ==
    (IsDocker /\ Ended) =>
        /\ pc = "done" => main_exit(returncode) = 0
        /\ main_exit(returncode) # 0 => OrchestrationFailure

\* C16 (as claimed): a trial is logged SUCCESS or FAILED only after its
\* patch was applied and its validation command ran to its end and was
\* classified; a trial that ended in a short circuit (patch rejected,
\* timeout, exception) is logged under a name of its own.  In
\* apply_patch_and_check a patch that git apply refused is not given the
\* value of a failed validation.
C16_StateMachine ==
    /\ (TrialDone /\ msg \in {"SUCCESS", "FAILED"}) =>
          /\ Completed
          /\ applied = "APPLIED"
          /\ run.invoked
    /\ (TrialDone /\ ~(Completed /\ applied = "APPLIED")) =>
          msg \in {"TIMEOUT", "PATCH_APPLY_FAILED", "ERROR"}
    /\ (prog = "ACR" /\ pc = "finally" /\ applied \in {"REJECTED", "MALFORMED"}) =>
          plausible \notin BOOLEAN

\* C17: no score computation divides by zero.  A tag summary is printed
\* only for a tag with at least one patch; a run of a docker script in which
\* no patch was tested still reaches the end of its global summary, where
\* eval_patches_flexible.py prints N/A and eval_patches.py prints 0.00;
\* auto-code-rover's main prints passed/total as text, also for no task.
C17_ZeroSafeRatios ==
    /\ err # "ZeroDivisionError"
    /\ (IsDocker /\ ~avg_score.na) => total_count > 0
    /\ (IsDocker /\ pc = "done" /\ global_total = 0) =>
          /\ global_score.label # "none"
          /\ prog = "EF" => global_score.na
          /\ prog = "EP" => (~global_score.na /\ global_score.value = 0)
    /\ (prog = "ACR" /\ Len(tasks) = 0) => pc \in {"task", "done"}

\* C17 witness: eval_patches_flexible.py has printed its global summary
\* after a run in which a tag with patches was skipped and nothing was tested.
C17_Witness ==
    /\ prog = "EF" /\ pc = "done"
    /\ global_total = 0
    /\ skipped_tags # <<>>
    /\ global_score.label = "Overall plausible score" /\ global_score.na

\* C18 (as claimed): a patch directory that is absent (the patch root, a
\* tag entry that is no directory, a task without its patch file) counts as
\* zero candidates: nothing is raised, no trial is made for it, and the run
\* goes on to its summary.
C18_AbsentPatchDir ==
    /\ (IsDocker /\ ~Exists(fs, AbsPath(PATCHES_ROOT))) =>
          /\ pc # "aborted"
          /\ pc = "done" => global_total = 0
    /\ IsDocker =>
          \A i \in DOMAIN tags : ~tags[i].isdir => Lines(tags[i].name) = 0
    /\ (prog = "ACR" /\ \A i \in DOMAIN tasks : ~tasks[i].has_patch) =>
          /\ pc \in {"task", "done"}
          /\ passed = 0
          /\ fs \in {AcrInitFS(stale) : stale \in BOOLEAN}

\* C19 (as claimed): the log line of a trial that was cut off by the timeout
\* carries the label TIMEOUT, whatever the exit code, together with the
\* output the command had printed when it was cut off.
C19_PartialOutput ==
    (TrialDone /\ run.late /\ HasTimeout(prog, CurTag)) =>
        /\ msg = "TIMEOUT"
        /\ LineOutput(run) = run.partial

RECURSIVE SumOver(_, _)
SumOver(f, S) == IF S = {} THEN 0
                 ELSE LET x == CHOOSE y \in S : TRUE IN f[x] + SumOver(f, S \ {x})

\* the number of trials the log shows with label l
Occurred(l) == SumOver([t \in DOMAIN log |-> log[t][l]], DOMAIN log)
\* the count the global summary gives for l; a category it does not print is
\* read as a count of zero
Reported(l) ==
    IF l \in DOMAIN Summary(global_success, global_total)
    THEN Summary(global_success, global_total)[l] ELSE 0

\* C20 (as claimed): in the global summary each outcome category has its own
\* count, equal to the number of trials that ended with that outcome, and
\* the counts add up to the number of trials attempted.
C20_OutcomeCounts ==
    (IsDocker /\ pc = "done") =>
        /\ \A l \in Labels : Reported(l) = Occurred(l)
        /\ SumOver([l \in Labels |-> Reported(l)], Labels)
              = SumOver([l \in Labels |-> Occurred(l)], Labels)

\* C21: the label of a completed trial is a function of its tag's marker
\* set, its stdout and its exit code, and another tag would label the same
\* (stdout, exit code) differently only where the two marker sets differ on
\* that stdout: one of them holds a marker that occurs in it and the other
\* holds none.
C21_MarkerSetPerTask ==
    Completed =>
        \A other \in TagNames :
            Classify(other, run) # msg =>
                /\ Markers(other) # Markers(CurTag)
                /\ (Markers(other) \cap run.stdout = {}) # (Markers(CurTag) \cap run.stdout = {})

\* C21 witness: a trial of agixt_1369 that printed "patched succeeded" and
\* exited 0 was logged SUCCESS, and crewai_1370 would log it FAILED.
C21_Witness ==
    /\ Completed /\ CurTag = "agixt_1369"
    /\ run.stdout = {"patched succeeded"} /\ run.rc = 0
    /\ msg = "SUCCESS"
    /\ Classify("crewai_1370", run) = "FAILED"

\* C22: execute_reproducer never raises on a timeout: it returns the result
\* with returncode -1, stdout "" and stderr "Test execution timeout."; when
\* the script completes, the result carries the process's stdout, stderr and
\* returncode unchanged.
C22_ExecuteReproducer ==
    prog = "ER" =>
        /\ pc # "aborted"
        /\ pc = "done" =>
            IF run.timed_out
            THEN /\ ret.returncode = -1
                 /\ ret.stdout = ""
                 /\ ret.stderr = "Test execution timeout."
            ELSE /\ ret.returncode = run.returncode
                 /\ ret.stdout = run.stdout
                 /\ ret.stderr = run.stderr

\* C22 witness: the script timed out after printing, and the call returned
C22_Witness ==
    /\ prog = "ER" /\ pc = "done"
    /\ run.timed_out /\ run.stdout = "dummy stdout"
    /\ ret.returncode = -1

\* C23: run_with_retries(text, retries) calls the model at most retries
\* times, stops at the first valid response and returns it, returns None
\* when every one of the retries responses was invalid, and holds exactly
\* one message thread per call made.
C23_RunWithRetries ==
    prog = "RW" =>
        /\ call_count <= retries
        /\ Len(threads) = call_count
        /\ \A i \in 1..(Len(threads) - 1) : ~is_valid_response(threads[i])
        /\ pc = "loop" => \A i \in 1..Len(threads) : ~is_valid_response(threads[i])
        /\ pc = "done" =>
            IF ret = "None"
            THEN /\ call_count = retries
                 /\ \A i \in 1..Len(threads) : ~is_valid_response(threads[i])
            ELSE /\ call_count >= 1
                 /\ ret = threads[Len(threads)]
                 /\ is_valid_response(ret)

\* C23 witness: two invalid responses, then a valid one
C23_Witness ==
    /\ prog = "RW" /\ pc = "done"
    /\ retries = 3 /\ call_count = 3
    /\ is_valid_response(ret)

\* C23, the other return: both responses were invalid
C23_WitnessNone ==
    /\ prog = "RW" /\ pc = "done"
    /\ retries = 2 /\ call_count = 2
    /\ ret = "None"

\* C24: once apply_patch_and_check has taken its backup, on every return the
\* repository holds what it held before the call and the backup directory
\* does not exist.
C24_ReturnRestores ==
    (/\ prog = "ACR" /\ pc \in {"task", "done"}
     /\ ki > 1 /\ tasks[ki - 1].has_patch /\ tasks[ki - 1].has_meta)
    => /\ Tree(fs, RepoPath) = Tree(snap.fs, RepoPath)
       /\ ~Exists(fs, BackupOf(RepoPath))

\* C24 witness: the call found a stale backup, applied the patch, ran
\* reproduce.py and returned
C24_Witness ==
    /\ prog = "ACR" /\ pc = "task" /\ ki = 2
    /\ applied = "APPLIED" /\ run.invoked
    /\ Exists(snap.fs, BackupOf(RepoPath))
    /\ Tree(fs, RepoPath) = Tree(snap.fs, RepoPath)
    /\ ~Exists(fs, BackupOf(RepoPath))

\* the repository directory or its _backup holds the original content
HasOriginal(F) ==
    \/ Exists(F, RepoPath) /\ Tree(F, RepoPath) = OrigTree
    \/ Exists(F, BackupOf(RepoPath)) /\ Tree(F, BackupOf(RepoPath)) = OrigTree

\* C25 (as claimed): at every step of save_repo_state and restore_repo_state,
\* and after a run was interrupted at any step and a new run has started on
\* the same task, the repository directory or the _backup directory holds a
\* complete unmodified copy of the original repository.
C25_OriginalNeverLost ==
    prog = "BR" => HasOriginal(fs)

\* C29: a task whose directory lacks output_0/extracted_patch_0.diff or
\* meta.json returns False with the file system as it was (no backup, no
\* change to the repository) and without adding to the plausible count,
\* while it counts in the total; so passed never exceeds the number of
\* tasks that had both files, nor the total.
C29_MissingInputs ==
    /\ [](prog = "ACR" =>
            /\ passed <= Cardinality({i \in 1..Len(tasks) :
                            i < ki /\ tasks[i].has_patch /\ tasks[i].has_meta})
            /\ passed <= Len(tasks))
    /\ [][(/\ prog = "ACR" /\ pc = "task" /\ ki <= Len(tasks)
           /\ ~tasks[ki].has_patch \/ ~tasks[ki].has_meta)
          => /\ fs' = fs
             /\ passed' = passed
             /\ pc' = "task" /\ ki' = ki + 1]_vars

\* C29 witness: of two tasks the first has a patch but no meta.json and the
\* second was found plausible; the run ends with 1/2 and no backup
C29_Witness ==
    /\ prog = "ACR" /\ pc = "done" /\ Len(tasks) = 2
    /\ tasks[1].has_patch /\ ~tasks[1].has_meta
    /\ passed = 1
    /\ ~Exists(fs, BackupOf(RepoPath))

\* the tags whose loop over the patch files has run to its summary
EvaluatedTags == {i \in 1..Len(tags) : i < ti /\ tags[i].name \in DOMAIN log}

\* C26: in eval_patches.py and eval_patches_flexible.py,
\* 0 <= success_count <= total_count and 0 <= global_success <= global_total
\* at every point; global_total is the number of .patch files of the tags
\* evaluated so far (skipped tags and tags without patches add nothing), and
\* a trial adds at most one to a success counter.
C26_Counters ==
    IsDocker =>
        /\ 0 <= success_count /\ success_count <= total_count
        /\ 0 <= global_success /\ global_success <= global_total
        /\ global_total = SumOver([i \in EvaluatedTags |-> tags[i].npatch], EvaluatedTags)
        /\ global_success =
             SumOver([i \in EvaluatedTags |-> log[tags[i].name]["SUCCESS"]], EvaluatedTags)
        /\ pc = "patch" => /\ success_count <= pi
                           /\ pi <= total_count
                           /\ success_count = log[CurTag]["SUCCESS"]
        /\ \A i \in 1..Len(tags) :
             (tags[i].name \in DOMAIN log) =>
                 log[tags[i].name]["SUCCESS"] <= Lines(tags[i].name)

\* C26 witness: a run of eval_patches_flexible.py that skipped a tag and
\* evaluated another one with two patches, one of them successful
C26_Witness ==
    /\ prog = "EF" /\ pc = "done"
    /\ Len(skipped_tags) = 1
    /\ global_total = 2 /\ global_success = 1

\* C28 (as claimed): the cleanup after a timed-out trial removes only the
\* container that the trial started: a container that ran on the host when
\* the script started is still there at every later point.
C28_CleanupOnlyOwnContainer ==
    IsDocker => snap.docker.containers \subseteq docker.containers

\* C27 (as claimed): run_command with timeout T always returns: once more
\* than T has passed since the command was started, run_command is not
\* blocked on it any more, whether or not the command still runs and holds
\* its output stream open, so the next command gets its turn.
C27_RunCommandReturns ==
    (prog = "RC" /\ elapsed > timeout) => pc = "returned"

\* the checks of is_patch_plausible, in the order of its `and` chain
CheckOrder == <<"static", "flake8", "import", "reproduce">>

\* the verdict recorded for the patch that was checked last
LastVerdict == results[CurSample][li - 1]

\* the checks called for the last patch follow the order, and each one was
\* called only after the one before it had passed
InOrderShortCircuit ==
    /\ Len(checks) \in 1..4
    /\ \A i \in 1..Len(checks) :
         /\ checks[i].name = CheckOrder[i]
         /\ i < Len(checks) => checks[i].outcome = "pass"

\* the verdict is True if and only if the four checks were called and passed
VerdictIffAllPass ==
    LastVerdict = (/\ Len(checks) = 4
                   /\ \A i \in 1..4 : checks[i].outcome = "pass")

\* C30 (as claimed): a patch is recorded True if and only if the static
\* compile check, the flake8 check, the import check and reproduce.py all
\* pass, called in that order with short-circuit; a failure, a timeout or an
\* exception in any of the checks, and a missing reproduce.py, record False,
\* so no check ends the evaluator.
C30_PlausibleIffAllPass ==
    prog = "AG" =>
        /\ err # "SystemExit"
        /\ (pc = "line" /\ li > 0 /\ applied = "APPLIED") =>
               InOrderShortCircuit /\ VerdictIffAllPass

\* the patches whose checks all returned: order, short-circuit and verdict
C30_ReturnedChecks ==
    (prog = "AG" /\ pc = "line" /\ li > 0 /\ applied = "APPLIED") =>
        InOrderShortCircuit /\ VerdictIffAllPass

====
